---- MODULE Spec2Model ----
(***************************************************************************)
(* Model of the xDS resource Manager of ekglue (package xds): the          *)
(* lock-protected resource store with its version counter and notify       *)
(* fan-out, and the per-stream driver Manager.Stream.                      *)
(*                                                                         *)
(* One producer goroutine calls Add / Replace / Delete; every stream in    *)
(* Streams runs Manager.Stream.  sync.Mutex is the variable mu; a step     *)
(* that needs the lock is enabled only while mu = "free".                  *)
(***************************************************************************)
EXTENDS Integers, Sequences, FiniteSets, TLC

\* ---------------------------------------------------------------- bounds
MaxOps == 2          \* mutation calls the producer makes
MaxVal == 2          \* distinct valid payloads per resource name
MaxHash == 2         \* distinct values randomString() can return
MaxReqs == 2         \* requests a client sends on one stream
MaxBatch == 2        \* length of the rs argument of Add and Replace

Names == {"A", "B"}
Streams == {"s1", "s2"}
Vals == 1 .. MaxVal
Hashes == 1 .. MaxHash

\* A Resource is its name and payload.  Payload 0 is the payload whose
\* Validate() returns an error.
Resource == [name : Names, val : 0 .. MaxVal]

Validate(r) == r.val # 0

resourceName(r) == r.name

\* Manager.Type, and a type URL that differs from it.
Type == "type.googleapis.com/T"
OtherType == "type.googleapis.com/X"

\* Manager.VersionPrefix
VersionPrefix == "v"

\* fmt.Sprintf("%s%d", m.VersionPrefix, m.version)
versionString(v) == <<VersionPrefix, v>>

\* fmt.Sprintf("nonce-%s-%s", version, hash)
NonceOf(vs, hash) == <<"nonce", vs, hash>>

\* req.GetResponseNonce() of a request that carries none
NoNonce == <<>>

\* ---------------------------------------------------------------- state
VARIABLES
    mu,          \* sync.Mutex of the Manager: "free", "producer" or a stream
    version,     \* Manager.version
    resources,   \* Manager.resources: map name -> payload
    sessions,    \* Manager.sessions: the registered session channels
    rCh,         \* per stream, the content of its session channel (cap 1)
    closed,      \* per stream, whether close(rCh) has run
    ppc,         \* producer: position in the running mutation
    call,        \* producer: the kind of the running (or last) call and,
                 \* while it runs, the names it was given to touch
    rest,        \* producer: elements of rs the loop has not reached yet
    changed,     \* producer: the names appended to `changed`
    old,         \* producer: Replace's `old` map
    blocked,     \* producer: notify's `blocked` list
    nret,        \* producer: what notify returned to the last call
    ret,         \* producer: what the last call returned to its caller
    ops,         \* producer: number of calls made
    pre,         \* store and version when the running call was made (the
                 \* current ones while no call runs)
    lastU,       \* the Update the last fan-out published
    OnAck,       \* Manager.OnAck: whether an observer is configured
    pc,          \* per stream, the position of Manager.Stream
    node,        \* per stream, Stream's `node`
    subscribed,  \* per stream, Stream's `resources` (the subscription)
    txs,         \* per stream, Stream's `txs`: map nonce -> tx
    res,         \* per stream, the response sendUpdate built last
    sent,        \* per stream, the version_info of the response resCh
                 \* accepted last
    err,         \* per stream, the error Stream returned
    reqs,        \* per stream, number of requests read from reqCh
    acks,        \* per stream, the Acknowledgments the last request passed
                 \* to OnAck
    ctxDone,     \* per stream, whether the ctx given to Stream is done
    spans        \* per stream, the number of spans sendUpdate started
                 \* that no Finish() was called on

mvars == <<mu, version, resources, sessions, rCh, closed>>
pvars == <<ppc, call, rest, changed, old, blocked, nret, ret, ops, pre, lastU>>
svars == <<OnAck, pc, node, subscribed, txs, res, sent, err, reqs, acks, ctxDone, spans>>
vars == <<mvars, pvars, svars>>

\* ------------------------------------------------------------- helpers
EmptyMap == [n \in {} |-> 0]

MapPut(m, k, v) == [n \in DOMAIN m \cup {k} |-> IF n = k THEN v ELSE m[n]]

MapDelete(m, k) == [n \in DOMAIN m \ {k} |-> m[n]]

\* All orders in which a `range` over a map or set can visit its keys.
Orders(S) == {q \in [1 .. Cardinality(S) -> S] : \A i, j \in 1 .. Cardinality(S) : i # j => q[i] # q[j]}

Range(q) == {q[i] : i \in DOMAIN q}

\* Batches the producer passes as rs.
Batches == UNION {[1 .. k -> Resource] : k \in 0 .. MaxBatch}

Update(names) == [resources |-> names]

NoCall == [kind |-> "none", touched |-> {}, expect |-> EmptyMap]

\* ------------------------------------------------------- Manager.notify
\* The sessions a non-blocking send reaches: those whose slot is empty.
CanSend(s) == rCh[s] = <<>>

\* A first pass that overwrites a full slot instead of skipping it.
FirstPass_Overwrite(u) == [s \in Streams |-> IF s \in sessions THEN <<u>> ELSE rCh[s]]

\* First pass of notify (the `for session := range m.sessions` loop with
\* select/default): every session with a free slot receives u.
FirstPass(u) == [s \in Streams |-> IF s \in sessions /\ CanSend(s) THEN <<u>> ELSE rCh[s]]

\* The sessions the first pass appends to `blocked`.
Busy == {s \in sessions : ~CanSend(s)}

\* A counter that steps down.
NextVersion_Down(v) == v - 1

\* m.version++
NextVersion(v) == v + 1

\* notify without its early return.
NotifySkips_Never(names) == FALSE

\* if len(resources) < 1 { return nil }
NotifySkips(names) == names = {}

\* What Add and Replace return once notify has returned nerr.
AddReturn(nerr) == "nil"

ReplaceReturn(nerr) == "nil"

\* Delete has no result.
DeleteReturn(nerr) == "none"

CallerReturn(nerr) ==
    CASE call.kind = "Add" -> AddReturn(nerr)
      [] call.kind = "Replace" -> ReplaceReturn(nerr)
      [] OTHER -> DeleteReturn(nerr)

\* The call returns r (notify having returned nerr, "none" when it was not
\* called), its locals die and the deferred m.Unlock() runs.  No returning
\* step writes the store or the counter.
Return(nerr, r) ==
    /\ mu' = "free"
    /\ ppc' = "idle"
    /\ nret' = nerr
    /\ ret' = r
    /\ call' = [kind |-> call.kind, touched |-> {}, expect |-> EmptyMap]
    /\ pre' = [resources |-> resources, version |-> version]
    /\ rest' = <<>>
    /\ changed' = {}
    /\ old' = EmptyMap
    /\ blocked' = <<>>

\* notify(ctx, names) up to the end of its first loop; the caller's locals
\* are written by the caller.
NotifyBegin(names) ==
    IF NotifySkips(names)
    THEN /\ Return("nil", CallerReturn("nil"))
         /\ UNCHANGED <<version, rCh, lastU>>
    ELSE /\ version' = NextVersion(version)
         /\ rCh' = FirstPass(Update(names))
         /\ lastU' = Update(names)
         /\ blocked' \in Orders(Busy)
         /\ ppc' = "notify"
         /\ changed' = names
         /\ rest' = <<>>
         /\ UNCHANGED <<mu, nret, ret, old, call, pre>>

\* Second loop of notify: `case session <- u` on the head of blocked.
NotifySend ==
    /\ ppc = "notify"
    /\ blocked # <<>>
    /\ CanSend(Head(blocked))
    /\ rCh' = [rCh EXCEPT ![Head(blocked)] = <<lastU>>]
    /\ blocked' = Tail(blocked)
    /\ UNCHANGED <<mu, version, resources, sessions, closed>>
    /\ UNCHANGED <<ppc, call, rest, changed, old, nret, ret, ops, pre, lastU>>
    /\ UNCHANGED svars

\* Second loop of notify: `case <-ctx.Done()`, return ctx.Err().  The
\* producer's context can be cancelled, or expire, at any moment.
NotifyCtxDone ==
    /\ ppc = "notify"
    /\ blocked # <<>>
    /\ Return("ctx", CallerReturn("ctx"))
    /\ UNCHANGED <<version, resources, sessions, rCh, closed>>
    /\ UNCHANGED <<ops, lastU>>
    /\ UNCHANGED svars

\* Second loop of notify is over: return nil.
NotifyDone ==
    /\ ppc = "notify"
    /\ blocked = <<>>
    /\ Return("nil", CallerReturn("nil"))
    /\ UNCHANGED <<version, resources, sessions, rCh, closed>>
    /\ UNCHANGED <<ops, lastU>>
    /\ UNCHANGED svars

\* ---------------------------------------------------------- Manager.Add
\* The names a call is asked to touch.
NamesOf(rs) == {resourceName(rs[i]) : i \in DOMAIN rs}

\* Last-writer-wins by name: the map M after every element of rs, in
\* order, has been set under its name.
RECURSIVE SetAll(_, _)
SetAll(M, rs) ==
    IF rs = <<>> THEN M
    ELSE SetAll(MapPut(M, resourceName(Head(rs)), Head(rs).val), Tail(rs))

\* What a call is to leave of the map M: Add sets each given name, Replace
\* makes the map exactly the given set, Delete removes the name, and a
\* call that returns a validation error contributes nothing.
ApplyAdd(M, rs) == IF \A i \in DOMAIN rs : Validate(rs[i]) THEN SetAll(M, rs) ELSE M

ApplyReplace(M, rs) == IF \A i \in DOMAIN rs : Validate(rs[i]) THEN SetAll(EmptyMap, rs) ELSE M

ApplyDelete(M, n) == [k \in DOMAIN M \ {n} |-> M[k]]

\* A mutation is called and passes its m.Lock(); expect is the resource
\* map the call is to leave.
Enter(kind, touched, expect, pc0) ==
    /\ ppc = "idle"
    /\ ops < MaxOps
    /\ mu = "free"
    /\ mu' = "producer"
    /\ call' = [kind |-> kind, touched |-> touched, expect |-> expect]
    /\ ops' = ops + 1
    /\ nret' = "none"
    /\ ret' = "pending"
    /\ ppc' = pc0

AddCall(rs) ==
    /\ Enter("Add", NamesOf(rs), ApplyAdd(resources, rs), "add")
    /\ rest' = rs
    /\ UNCHANGED <<version, resources, sessions, rCh, closed>>
    /\ UNCHANGED <<changed, old, blocked, pre, lastU>>
    /\ UNCHANGED svars

\* One iteration of `for _, r := range rs` in Add.
AddLoop ==
    /\ ppc = "add"
    /\ rest # <<>>
    /\ LET r == Head(rest)
           n == resourceName(r)
       IN IF ~Validate(r)
          THEN /\ Return("none", "validation")
               /\ UNCHANGED resources
          ELSE /\ resources' = MapPut(resources, n, r.val)
               /\ changed' = changed \cup {n}
               /\ rest' = Tail(rest)
               /\ UNCHANGED <<mu, ppc, nret, ret, old, blocked, call, pre>>
    /\ UNCHANGED <<version, sessions, rCh, closed, ops, lastU>>
    /\ UNCHANGED svars

\* m.notify(ctx, changed) at the end of Add.
AddNotify ==
    /\ ppc = "add"
    /\ rest = <<>>
    /\ NotifyBegin(changed)
    /\ UNCHANGED <<resources, sessions, closed, ops>>
    /\ UNCHANGED svars

\* ------------------------------------------------------ Manager.Replace
\* A validation loop that accepts every element.
AllValid_Always(rs) == TRUE

\* The validation loop of Replace finds no error.
AllValid(rs) == \A i \in DOMAIN rs : Validate(rs[i])

\* The validation loop of Replace finds an invalid element and returns
\* before m.Lock().
ReplaceInvalid(rs) ==
    /\ ppc = "idle"
    /\ ops < MaxOps
    /\ ~AllValid(rs)
    /\ call' = [kind |-> "Replace", touched |-> {}, expect |-> EmptyMap]
    /\ ops' = ops + 1
    /\ nret' = "none"
    /\ ret' = "validation"
    /\ UNCHANGED <<mu, version, resources, sessions, rCh, closed>>
    /\ UNCHANGED <<ppc, rest, changed, old, blocked, pre, lastU>>
    /\ UNCHANGED svars

\* old := m.resources; m.resources = make(map[string]Resource)
ReplaceCall(rs) ==
    /\ AllValid(rs)
    /\ Enter("Replace", NamesOf(rs) \cup DOMAIN resources, ApplyReplace(resources, rs), "replace")
    /\ rest' = rs
    /\ old' = resources
    /\ resources' = EmptyMap
    /\ UNCHANGED <<version, sessions, rCh, closed>>
    /\ UNCHANGED <<changed, blocked, pre, lastU>>
    /\ UNCHANGED svars

\* One iteration of `for _, r := range rs` in Replace.
ReplaceLoop ==
    /\ ppc = "replace"
    /\ rest # <<>>
    /\ LET r == Head(rest)
           n == resourceName(r)
       IN /\ old' = IF n \in DOMAIN old THEN MapDelete(old, n) ELSE old
          /\ changed' = changed \cup {n}
          /\ resources' = MapPut(resources, n, r.val)
          /\ rest' = Tail(rest)
    /\ UNCHANGED <<mu, version, sessions, rCh, closed>>
    /\ UNCHANGED <<ppc, call, blocked, nret, ret, ops, pre, lastU>>
    /\ UNCHANGED svars

\* A Replace that notifies of the given names only.
ReplaceNotify_GivenOnly ==
    /\ ppc = "replace"
    /\ rest = <<>>
    /\ NotifyBegin(changed)
    /\ UNCHANGED <<resources, sessions, closed, ops>>
    /\ UNCHANGED svars

\* `for n := range old { changed = append(changed, n) }`, then notify.
ReplaceNotify ==
    /\ ppc = "replace"
    /\ rest = <<>>
    /\ NotifyBegin(changed \cup DOMAIN old)
    /\ UNCHANGED <<resources, sessions, closed, ops>>
    /\ UNCHANGED svars

\* ------------------------------------------------------- Manager.Delete
\* if _, ok := m.resources[n]; ok
DeleteHits(n) == n \in DOMAIN resources

DeleteCall(n) ==
    /\ Enter("Delete", {n} \cap DOMAIN resources, ApplyDelete(resources, n), "delete")
    /\ rest' = <<[name |-> n]>>
    /\ UNCHANGED <<version, resources, sessions, rCh, closed>>
    /\ UNCHANGED <<changed, old, blocked, pre, lastU>>
    /\ UNCHANGED svars

\* The body of Delete: delete(m.resources, n); m.notify(ctx, []string{n}).
DeleteBody ==
    /\ ppc = "delete"
    /\ IF DeleteHits(Head(rest).name)
       THEN /\ resources' = MapDelete(resources, Head(rest).name)
            /\ NotifyBegin({Head(rest).name})
       ELSE /\ Return("none", DeleteReturn("nil"))
            /\ UNCHANGED <<version, resources, rCh, lastU>>
    /\ UNCHANGED <<sessions, closed, ops>>
    /\ UNCHANGED svars

\* --------------------------------------------------------- Manager.List
\* The names in ascending order, as `<` orders Go strings.
NameOrder == <<"A", "B">>

NameLess(a, b) == \E i, j \in DOMAIN NameOrder : i < j /\ NameOrder[i] = a /\ NameOrder[j] = b

\* List() of a store M: the resources appended in the order of a range over
\* the map, then sort.Slice by resourceName.
List(M) ==
    LET q == CHOOSE o \in Orders(DOMAIN M) :
                 \A i, j \in DOMAIN o : i < j => NameLess(o[i], o[j])
    IN [i \in DOMAIN q |-> [name |-> q[i], val |-> M[q[i]]]]

\* ------------------------------------------------ snapshot and response
NoRes == [nonce |-> NoNonce]

NoVersion == <<>>

\* snapshot(want) for a non-empty want: the present names in the order
\* requested, each with its payload.
snapshot(want) ==
    LET present == SelectSeq(want, LAMBDA n : n \in DOMAIN resources)
    IN [i \in 1 .. Len(present) |-> <<present[i], resources[present[i]]>>]

\* snapshotAll(): `for n, r := range m.resources`, in any order.
snapshotAll == {[i \in DOMAIN q |-> <<q[i], resources[q[i]]>>] : q \in Orders(DOMAIN resources)}

\* if len(want) == 0 { return m.snapshotAll() }
Snapshots(want) == IF Len(want) = 0 THEN snapshotAll ELSE {snapshot(want)}

\* randomString(): eight letters from crypto/rand, or the constant
\* "xxxxxxxx" when the read fails; any of Hashes.
randomString == Hashes

\* BuildDiscoveryResponse without its m.Lock().
BuildLocks_Unlocked == TRUE

\* m.Lock() at the head of BuildDiscoveryResponse.
BuildLocks == mu = "free"

\* The DiscoveryResponses that BuildDiscoveryResponse(want) can return when
\* randomString() returns hash.
BuildDiscoveryResponse(want, hash) ==
    {[version_info |-> versionString(version),
      type_url |-> Type,
      resources |-> rs,
      nonce |-> NonceOf(versionString(version), hash)] : rs \in Snapshots(want)}

\* ------------------------------------------------------- Manager.Stream
NodeIds == {"", "n1"}
NameLists == {<<>>, <<"A">>, <<"B">>, <<"A", "B">>, <<"B", "A">>}
AllNonces == {NonceOf(versionString(v), h) : v \in 0 .. MaxOps, h \in Hashes}

\* The DiscoveryRequests a client can send whose response_nonce is in N
\* and whose type_url is in T.  error_detail is TRUE when the field is set;
\* version_info is the version the client says it runs.
RequestsWith(N, T) ==
    [node : NodeIds, resource_names : NameLists, type_url : T,
     response_nonce : N, error_detail : BOOLEAN,
     version_info : {versionString(0)}]

Requests == RequestsWith({NoNonce} \cup AllNonces, {Type, OtherType})

\* rCh := make(session, 1); m.sessions[rCh] = struct{}{} under the lock.
StreamStart(s) ==
    /\ pc[s] = "init"
    /\ mu = "free"
    /\ sessions' = sessions \cup {s}
    /\ pc' = [pc EXCEPT ![s] = "select"]
    /\ UNCHANGED <<mu, version, resources, rCh, closed>>
    /\ UNCHANGED pvars
    /\ UNCHANGED <<OnAck, node, subscribed, txs, res, sent, err, reqs, acks, ctxDone, spans>>

\* cmp.Diff(resources, newResources) != ""
Diff(a, b) == a # b

\* if node == "": this request is taken as the first one of the stream.
IsFirst(s) == node[s] = ""

\* handleTx: the Acknowledgment passed to m.OnAck.
Acknowledgment(s, req) ==
    [Ack |-> ~req.error_detail, Node |-> node'[s], Version |-> req.version_info]

\* A handleTx that drops every transaction of the stream.
handleTx_ClearsAll(s, t, req) ==
    /\ acks' = [acks EXCEPT ![s] = IF OnAck THEN <<Acknowledgment(s, req)>> ELSE <<>>]
    /\ txs' = [txs EXCEPT ![s] = EmptyMap]
    /\ spans' = [spans EXCEPT ![s] = @ - 1]

\* handleTx(t, req): call the observer when there is one, t.span.Finish(),
\* delete(txs, t.nonce).
handleTx(s, t, req) ==
    /\ acks' = [acks EXCEPT ![s] = IF OnAck THEN <<Acknowledgment(s, req)>> ELSE <<>>]
    /\ txs' = [txs EXCEPT ![s] = MapDelete(@, t.nonce)]
    /\ spans' = [spans EXCEPT ![s] = @ - 1]

\* A dispatch that drops a request whose nonce is not known.
Resend_Dropped(s) == pc

\* The nonce is not the key of a transaction: sendUpdate(ctx) is called.
Resend(s) == [pc EXCEPT ![s] = "build"]

\* `case req, ok := <-reqCh` with ok: one request, up to the call of
\* sendUpdate or the return.
Request(s, req) ==
    /\ pc[s] = "select"
    /\ reqs' = [reqs EXCEPT ![s] = @ + 1]
    /\ LET newResources == req.resource_names
       IN /\ node' = [node EXCEPT ![s] = IF IsFirst(s) THEN req.node ELSE @]
          /\ subscribed' = [subscribed EXCEPT ![s] = IF IsFirst(s) THEN newResources ELSE @]
          /\ IF Diff(subscribed'[s], newResources)
             THEN /\ pc' = [pc EXCEPT ![s] = "exit"]
                  /\ err' = [err EXCEPT ![s] = "FailedPrecondition"]
                  /\ acks' = [acks EXCEPT ![s] = <<>>]
                  /\ UNCHANGED <<txs, spans>>
             ELSE IF req.type_url # Type
             THEN /\ pc' = [pc EXCEPT ![s] = "exit"]
                  /\ err' = [err EXCEPT ![s] = "InvalidArgument"]
                  /\ acks' = [acks EXCEPT ![s] = <<>>]
                  /\ UNCHANGED <<txs, spans>>
             ELSE IF req.response_nonce \in DOMAIN txs[s]
             THEN /\ handleTx(s, txs[s][req.response_nonce], req)
                  /\ UNCHANGED <<pc, err>>
             ELSE /\ pc' = Resend(s)
                  /\ acks' = [acks EXCEPT ![s] = <<>>]
                  /\ UNCHANGED <<txs, err, spans>>
    /\ UNCHANGED mvars
    /\ UNCHANGED pvars
    /\ UNCHANGED <<OnAck, res, sent, ctxDone>>

\* A driver that pushes on every notification.
Wanted_Always(s, u) == TRUE

\* `case u := <-rCh`: whether the notification makes the driver push.
Wanted(s, u) ==
    \/ Len(subscribed[s]) = 0
    \/ \E i \in DOMAIN subscribed[s] : subscribed[s][i] \in u.resources

Notified(s) ==
    /\ pc[s] = "select"
    /\ rCh[s] # <<>>
    /\ rCh' = [rCh EXCEPT ![s] = <<>>]
    /\ pc' = [pc EXCEPT ![s] = IF Wanted(s, rCh[s][1]) THEN "build" ELSE "select"]
    /\ UNCHANGED <<mu, version, resources, sessions, closed>>
    /\ UNCHANGED pvars
    /\ UNCHANGED <<OnAck, node, subscribed, txs, res, sent, err, reqs, acks, ctxDone, spans>>

\* The rank of the start time of a transaction made now: later than the
\* start of every live transaction.
Now(s) ==
    LET S == {txs[s][k].start : k \in DOMAIN txs[s]}
    IN IF S = {} THEN 1 ELSE 1 + CHOOSE x \in S : \A y \in S : y <= x

\* t := &tx{start: time.Now(), version: res.GetVersionInfo(),
\*          nonce: res.GetNonce()}
NewTx(s, r) == [nonce |-> r.nonce, version |-> r.version_info, start |-> Now(s)]

\* A sendUpdate that records the transaction whether or not resCh accepted
\* the response.
sendUpdate_AlwaysRecords(s, hash, accepted) ==
    /\ pc[s] = "build"
    /\ BuildLocks
    /\ \E r \in BuildDiscoveryResponse(subscribed[s], hash) :
          /\ res' = [res EXCEPT ![s] = r]
          /\ sent' = [sent EXCEPT ![s] = IF accepted THEN r.version_info ELSE @]
          /\ txs' = [txs EXCEPT ![s] = MapPut(@, r.nonce, NewTx(s, r))]
    /\ spans' = [spans EXCEPT ![s] = @ + 1]
    /\ pc' = [pc EXCEPT ![s] = "select"]
    /\ UNCHANGED mvars
    /\ UNCHANGED pvars
    /\ UNCHANGED <<OnAck, node, subscribed, err, reqs, acks, ctxDone>>

\* sendUpdate: m.BuildDiscoveryResponse(resources), which holds the lock
\* from its first statement to its return, then the select on resCh and
\* the 5 s timer: `case resCh <- res` records txs[res.GetNonce()] = t,
\* `case <-timer.C` records nothing and finishes the span that was started
\* for the transaction.
sendUpdate(s, hash, accepted) ==
    /\ pc[s] = "build"
    /\ BuildLocks
    /\ \E r \in BuildDiscoveryResponse(subscribed[s], hash) :
          /\ res' = [res EXCEPT ![s] = r]
          /\ sent' = [sent EXCEPT ![s] = IF accepted THEN r.version_info ELSE @]
          /\ txs' = [txs EXCEPT ![s] = IF accepted THEN MapPut(@, r.nonce, NewTx(s, r)) ELSE @]
    /\ spans' = [spans EXCEPT ![s] = IF accepted THEN @ + 1 ELSE @]
    /\ pc' = [pc EXCEPT ![s] = "select"]
    /\ UNCHANGED mvars
    /\ UNCHANGED pvars
    /\ UNCHANGED <<OnAck, node, subscribed, err, reqs, acks, ctxDone>>

\* A test of staleness that every transaction passes.
Stale_All(s, k) == DOMAIN txs[s]

\* time.Since(t.start) > time.Minute, at a tick at which the transaction
\* under nonce k is the youngest one that started more than a minute ago:
\* the keys of the transactions that started no later than it.
Stale(s, k) == {j \in DOMAIN txs[s] : txs[s][j].start <= txs[s][k].start}

\* `case <-cleanupTicker.C` at such a tick: every stale transaction has its
\* span finished and is deleted.
TickAt(s, k) ==
    /\ pc[s] = "select"
    /\ k \in DOMAIN txs[s]
    /\ txs' = [txs EXCEPT ![s] = [j \in DOMAIN @ \ Stale(s, k) |-> @[j]]]
    /\ spans' = [spans EXCEPT ![s] = @ - Cardinality(Stale(s, k))]
    /\ UNCHANGED mvars
    /\ UNCHANGED pvars
    /\ UNCHANGED <<OnAck, pc, node, subscribed, res, sent, err, reqs, acks, ctxDone>>

\* `case <-cleanupTicker.C`: every transaction that started more than a
\* minute ago has its span finished and is deleted, that is the live
\* transactions up to some start time.
CleanupTick(s) == \E k \in DOMAIN txs[s] : TickAt(s, k)

Reasons == {"draining", "ctx", "closed"}

\* The ctx given to Stream is cancelled.
CtxCancel(s) ==
    /\ pc[s] \notin {"init", "returned"}
    /\ ~ctxDone[s]
    /\ ctxDone' = [ctxDone EXCEPT ![s] = TRUE]
    /\ UNCHANGED mvars
    /\ UNCHANGED pvars
    /\ UNCHANGED <<OnAck, pc, node, subscribed, txs, res, sent, err, reqs, acks, spans>>

\* The select cases that return: server.Draining(), ctx.Done(), and a
\* closed reqCh.  A ctx that was not done before is cancelled now.
Returns(s, e) ==
    /\ pc[s] = "select"
    /\ pc' = [pc EXCEPT ![s] = "exit"]
    /\ err' = [err EXCEPT ![s] = e]
    /\ ctxDone' = [ctxDone EXCEPT ![s] = IF e = "ctx" THEN TRUE ELSE @]
    /\ UNCHANGED mvars
    /\ UNCHANGED pvars
    /\ UNCHANGED <<OnAck, node, subscribed, txs, res, sent, reqs, acks, spans>>

\* A cleanup that does not wait for the lock.
CleanupLocks_Unlocked == TRUE

\* m.Lock() of the deferred cleanup returns once no producer and no other
\* driver holds the lock; m.Unlock() follows within the same step.
CleanupLocks == mu = "free"

\* The deferred cleanup: m.Lock(); delete(m.sessions, rCh); close(rCh);
\* m.Unlock(); t.span.Finish() for every t of txs; then Stream has returned
\* and its locals are gone.
Cleanup(s) ==
    /\ pc[s] = "exit"
    /\ CleanupLocks
    /\ sessions' = sessions \ {s}
    /\ closed' = [closed EXCEPT ![s] = TRUE]
    /\ pc' = [pc EXCEPT ![s] = "returned"]
    /\ node' = [node EXCEPT ![s] = ""]
    /\ subscribed' = [subscribed EXCEPT ![s] = <<>>]
    /\ txs' = [txs EXCEPT ![s] = EmptyMap]
    /\ res' = [res EXCEPT ![s] = NoRes]
    /\ sent' = [sent EXCEPT ![s] = NoVersion]
    /\ acks' = [acks EXCEPT ![s] = <<>>]
    /\ reqs' = [reqs EXCEPT ![s] = 0]
    /\ UNCHANGED <<mu, version, resources, rCh>>
    /\ UNCHANGED pvars
    /\ spans' = [spans EXCEPT ![s] = @ - Cardinality(DOMAIN txs[s])]
    /\ UNCHANGED <<OnAck, err, ctxDone>>

\* ------------------------------------------------------- specification
Init ==
    /\ mu = "free"
    /\ version = 0
    /\ resources = EmptyMap
    /\ sessions = {}
    /\ rCh = [s \in Streams |-> <<>>]
    /\ closed = [s \in Streams |-> FALSE]
    /\ ppc = "idle"
    /\ call = NoCall
    /\ rest = <<>>
    /\ changed = {}
    /\ old = EmptyMap
    /\ blocked = <<>>
    /\ nret = "none"
    /\ ret = "none"
    /\ ops = 0
    /\ pre = [resources |-> EmptyMap, version |-> 0]
    /\ lastU = Update({})
    /\ OnAck \in BOOLEAN
    /\ pc = [s \in Streams |-> "init"]
    /\ node = [s \in Streams |-> ""]
    /\ subscribed = [s \in Streams |-> <<>>]
    /\ txs = [s \in Streams |-> EmptyMap]
    /\ res = [s \in Streams |-> NoRes]
    /\ sent = [s \in Streams |-> NoVersion]
    /\ err = [s \in Streams |-> "none"]
    /\ reqs = [s \in Streams |-> 0]
    /\ acks = [s \in Streams |-> <<>>]
    /\ ctxDone = [s \in Streams |-> FALSE]
    /\ spans = [s \in Streams |-> 0]

\* A Manager that was given an observer.
InitObserved == Init /\ OnAck = TRUE

\* The calls of the producer, with rs drawn from B.
Mutations(B) ==
    \/ \E rs \in B : AddCall(rs)
    \/ AddLoop
    \/ AddNotify
    \/ \E rs \in B : ReplaceInvalid(rs)
    \/ \E rs \in B : ReplaceCall(rs)
    \/ ReplaceLoop
    \/ ReplaceNotify
    \/ \E n \in Names : DeleteCall(n)
    \/ DeleteBody

\* The steps of the drivers of the streams S other than reading a request:
\* randomString() returns a member of H, and the consumer of resCh accepts
\* a response in time (TRUE) or not (FALSE) as Acc allows; E are the
\* reasons for which the select returns.
Drivers(S, H, Acc, E) ==
    \/ \E s \in S : StreamStart(s)
    \/ \E s \in S : Notified(s)
    \/ \E s \in S, hash \in H, accepted \in Acc : sendUpdate(s, hash, accepted)
    \/ \E s \in S, e \in E : Returns(s, e)
    \/ \E s \in S : Cleanup(s)

\* The client of stream s sends one of the requests R, k requests at most.
ClientSends(s, R, k) ==
    /\ reqs[s] < k
    /\ \E req \in R : Request(s, req)

\* Batches of one valid resource.
Singles == {<<[name |-> n, val |-> 1]>> : n \in Names}

\* The calls of a producer that adds, replaces by and deletes single
\* resources.
SingleMutations ==
    \/ \E rs \in Singles : AddCall(rs)
    \/ AddLoop
    \/ AddNotify
    \/ \E rs \in Singles : ReplaceCall(rs)
    \/ ReplaceLoop
    \/ ReplaceNotify
    \/ \E n \in Names : DeleteCall(n)
    \/ DeleteBody

\* The requests of a client that subscribes and never acknowledges.
Subscribes ==
    {req \in Requests : /\ req.node = "n1"
                        /\ req.resource_names \in {<<>>, <<"B">>}
                        /\ req.type_url = Type
                        /\ req.response_nonce = NoNonce
                        /\ ~req.error_detail
                        /\ req.version_info = versionString(0)}

\* Store: the producer makes every call on every batch while one stream,
\* whose client subscribes and never acknowledges, follows the
\* notifications.
Next ==
    \/ Mutations(Batches)
    \/ NotifySend
    \/ NotifyCtxDone
    \/ NotifyDone
    \/ Drivers({"s1"}, {1}, BOOLEAN, {"ctx"})
    \/ CleanupTick("s1")
    \/ ClientSends("s1", Subscribes, 1)

Spec == InitObserved /\ [][Next]_vars

\* Fan-out: a producer of single resources, whose context can be cancelled,
\* and two streams whose clients subscribe and then read no response in
\* time, so that no transaction is ever recorded for the ticker to clean.
NextFanout ==
    \/ SingleMutations
    \/ NotifySend
    \/ NotifyCtxDone
    \/ NotifyDone
    \/ Drivers(Streams, {1}, {FALSE}, {"ctx"})
    \/ \E s \in Streams : ClientSends(s, Subscribes, 1)

SpecFanout == InitObserved /\ [][NextFanout]_vars

\* Protocol: one stream whose client sends any request, next to a producer
\* that adds one resource once; its fan-out finds the slot empty.
NextStream ==
    \/ ops = 0 /\ \E rs \in Singles : AddCall(rs)
    \/ AddLoop
    \/ AddNotify
    \/ NotifyDone
    \/ Drivers({"s1"}, Hashes, BOOLEAN, Reasons)
    \/ CleanupTick("s1")
    \/ ClientSends("s1", Requests, MaxReqs)

SpecStream == Init /\ [][NextStream]_vars

\* Cancellation: one stream whose client subscribes and whose context is
\* cancelled at some moment, next to a producer of single resources whose
\* own context is never cancelled.
NextLive ==
    \/ SingleMutations
    \/ NotifySend
    \/ NotifyDone
    \/ StreamStart("s1")
    \/ Notified("s1")
    \/ \E accepted \in BOOLEAN : sendUpdate("s1", 1, accepted)
    \/ CtxCancel("s1")
    \/ ctxDone["s1"] /\ Returns("s1", "ctx")
    \/ Cleanup("s1")
    \/ ClientSends("s1", Subscribes, 1)

\* Every goroutine that can take a step is scheduled: the producer inside
\* a call, and the driver.  Nothing obliges the producer to call, the
\* client to send or the context to be cancelled.
Fairness ==
    /\ WF_vars(AddLoop \/ AddNotify \/ ReplaceLoop \/ ReplaceNotify \/ DeleteBody)
    /\ WF_vars(NotifySend \/ NotifyDone)
    /\ WF_vars(StreamStart("s1"))
    /\ WF_vars(Notified("s1"))
    /\ WF_vars(\E accepted \in BOOLEAN : sendUpdate("s1", 1, accepted))
    /\ WF_vars(ctxDone["s1"] /\ Returns("s1", "ctx"))
    /\ WF_vars(Cleanup("s1"))

SpecLive == InitObserved /\ [][NextLive]_vars /\ Fairness

\* Lock and slots: one stream whose client subscribes and reads every
\* response in time, and which may end for any reason, next to a producer of
\* single resources whose context is never cancelled.
NextLock ==
    \/ SingleMutations
    \/ NotifySend
    \/ NotifyDone
    \/ StreamStart("s1")
    \/ Notified("s1")
    \/ sendUpdate("s1", 1, TRUE)
    \/ \E e \in Reasons : Returns("s1", e)
    \/ Cleanup("s1")
    \/ ClientSends("s1", Subscribes, 1)

\* The goroutines of the producer and of the driver are scheduled: a step
\* of the code that can be taken for ever is taken.
FairLock ==
    /\ WF_vars(AddLoop \/ AddNotify \/ ReplaceLoop \/ ReplaceNotify \/ DeleteBody)
    /\ WF_vars(NotifySend \/ NotifyDone)
    /\ WF_vars(StreamStart("s1"))
    /\ WF_vars(Notified("s1"))
    /\ WF_vars(sendUpdate("s1", 1, TRUE))
    /\ WF_vars(Cleanup("s1"))

SpecLock == InitObserved /\ [][NextLock]_vars /\ FairLock

\* Dispatch: one stream whose client sends any two requests, next to a
\* producer that adds one resource once; randomString() returns one value,
\* so that every nonce made of another is the key of no transaction.
NextDispatch ==
    \/ ops = 0 /\ \E rs \in Singles : AddCall(rs)
    \/ AddLoop
    \/ AddNotify
    \/ NotifyDone
    \/ Drivers({"s1"}, {1}, BOOLEAN, {"ctx"})
    \/ CleanupTick("s1")
    \/ ClientSends("s1", Requests, 2)

SpecDispatch == InitObserved /\ [][NextDispatch]_vars

\* ---------------------------------------------------------------- claims
\* The store content a subscription selects: every entry for a wildcard
\* subscription, else the entries of the subscribed names.
Restricted(store, want) ==
    {<<n, store[n]>> : n \in {m \in DOMAIN store : Len(want) = 0 \/ m \in Range(want)}}

\* The set of entries a response lists.
Listed(r) == Range(r.resources)

\* Stream s completes a sendUpdate in this step.
Builds(s) == pc[s] = "build" /\ pc'[s] = "select"

\* The running call returns in this step.
Returning == ppc # "idle" /\ ppc' = "idle"

\* C1: an Add in which some element of rs fails validation returns an error
\* and leaves the resource map and the version counter as they were when it
\* was called, and runs no fan-out.
C1_FailedAddLeavesStore ==
    [][(Returning /\ call.kind = "Add" /\ ret' = "validation")
         => (resources' = pre.resources /\ version' = pre.version /\ nret' = "none")]_vars

\* C2: every response built while mutations run lists exactly the store
\* content, restricted to the subscription, of a state between two
\* mutations (the one the running mutation started from, or the one the last
\* mutation left), with the version string of that same state.
C2_SnapshotIsAtomic ==
    [][\A s \in Streams : Builds(s) =>
          /\ Listed(res'[s]) = Restricted(pre.resources, subscribed[s])
          /\ res'[s].version_info = versionString(pre.version)]_vars

\* A stream waits for the lock in BuildDiscoveryResponse, having built a
\* response before, while an Add has applied a part of its batch.
C2_Witness ==
    /\ ppc = "add" /\ changed # {} /\ rest # <<>>
    /\ pc["s1"] = "build" /\ res["s1"] # NoRes

\* The producer has made its last call and the call has returned.
ProducerStopped == ops = MaxOps /\ ppc = "idle"

\* Nothing is left that would make the driver of s build again: it waits
\* in its select and its slot is empty.
Quiet(s) == s \in sessions /\ pc[s] = "select" /\ rCh[s] = <<>>

\* C3: once the producer has stopped, a subscribed session (wildcard or by
\* name) that has built a response does not come to rest before it has
\* built one that lists the final store restricted to its subscription.
C3_SlowSessionConverges ==
    \A s \in Streams :
        (ProducerStopped /\ Quiet(s) /\ node[s] # "" /\ res[s] # NoRes)
            => Listed(res[s]) = Restricted(resources, subscribed[s])

C5_CancelledFanoutIsReported ==
    (ppc = "idle" /\ nret = "ctx") => ret = "ctx"

\* C6: once a first request has been processed on a stream, a request whose
\* resource_names differ from the latched ones ends the stream with
\* FailedPrecondition, leaves the subscription alone and starts no push.
C6_SubscriptionIsLatched ==
    [][\A s \in Streams, req \in Requests :
          (reqs[s] >= 1 /\ req.resource_names # subscribed[s] /\ Request(s, req))
              => /\ pc'[s] = "exit"
                 /\ err'[s] = "FailedPrecondition"
                 /\ subscribed'[s] = subscribed[s]]_vars

\* C7: a later request that names the subscribed resources in another order
\* is not rejected with FailedPrecondition.
C7_OrderIndependent ==
    [][\A s \in Streams, req \in Requests :
          (/\ reqs[s] >= 1
           /\ Range(req.resource_names) = Range(subscribed[s])
           /\ Len(req.resource_names) = Len(subscribed[s])
           /\ Request(s, req))
              => err'[s] # "FailedPrecondition"]_vars

\* C8: a request that passes the subscription and type checks and whose
\* response_nonce is the key of a live transaction removes that transaction
\* and no other, has the observer (when one is configured) called exactly
\* once with ack = (no error_detail), and starts no push.
C8_AckRetiresOne ==
    [][\A s \in Streams : \A req \in RequestsWith(DOMAIN txs[s], {Type}) :
          (Request(s, req) /\ pc'[s] # "exit")
              => /\ DOMAIN txs'[s] = DOMAIN txs[s] \ {req.response_nonce}
                 /\ \A k \in DOMAIN txs'[s] : txs'[s][k] = txs[s][k]
                 /\ acks'[s] = IF OnAck
                               THEN <<[Ack |-> ~req.error_detail, Node |-> node'[s],
                                       Version |-> req.version_info]>>
                               ELSE <<>>
                 /\ pc'[s] = "select"
                 /\ res'[s] = res[s]
                 /\ sent'[s] = sent[s]]_vars

\* The client rejected the response of version 1 and the transaction of
\* the response of version 0 is still live.
C8_Witness ==
    /\ acks["s1"] # <<>> /\ ~acks["s1"][1].Ack
    /\ sent["s1"] = versionString(1)
    /\ Cardinality(DOMAIN txs["s1"]) = 1
    /\ \A k \in DOMAIN txs["s1"] : txs["s1"][k].version = versionString(0)

\* C9: a response that resCh accepts carries a nonce that is the key of no
\* live transaction of the stream, whatever randomString() returned.
C9_NonceIsFresh ==
    [][\A s \in Streams, hash \in randomString :
          sendUpdate(s, hash, TRUE)
              => NonceOf(versionString(version), hash) \notin DOMAIN txs[s]]_vars

\* C11: of any two responses that resCh accepts on one stream, one after
\* the other, the later one carries a counter that is not below the
\* earlier one's.
C11_VersionsAscend ==
    [][\A s \in Streams :
          (sent[s] # NoVersion /\ sent'[s] # NoVersion) => sent[s][2] <= sent'[s][2]]_vars

\* Responses of version 1 and then of version 2 were accepted on a stream.
C11_Witness ==
    /\ sent["s1"] = versionString(2)
    /\ \E k \in DOMAIN txs["s1"] : txs["s1"][k].version = versionString(1)

\* The running call is a Replace that returns before m.Lock().
ReturnsUnlocked == ppc = "idle" /\ ppc' = "idle" /\ ops' = ops + 1

\* C12: every call leaves the resource map that last-writer-wins by name
\* makes of the map it found: Add sets the given names, Replace makes the
\* map the given set, Delete removes the name, and a call that returns a
\* validation error leaves the map it found.
C12_StoreIsFold ==
    [][/\ Returning => resources' = call.expect
       /\ ReturnsUnlocked => resources' = resources]_vars

\* C13: a Replace of a batch with an element that fails validation returns
\* the error without taking the lock and leaves the resource map, the
\* counter and every slot as they are.
C13_FailedReplaceLeavesStore ==
    [][(ppc = "idle" /\ ops' = ops + 1) =>
          \A rs \in Batches :
              ((\E i \in DOMAIN rs : ~Validate(rs[i])) /\ (ReplaceInvalid(rs) \/ ReplaceCall(rs)))
                  => /\ ret' = "validation"
                     /\ ppc' = "idle"
                     /\ mu' = mu
                     /\ resources' = resources
                     /\ version' = version
                     /\ rCh' = rCh]_vars

\* A Replace has returned a validation error on a store that holds a
\* resource, while a session's slot is full.
C13_Witness ==
    /\ ppc = "idle" /\ call.kind = "Replace" /\ ret = "validation"
    /\ resources # EmptyMap
    /\ \E s \in sessions : rCh[s] # <<>>

\* A Replace that passed validation returns in this step.
ReplaceReturns == Returning /\ call.kind = "Replace"

\* C14 as stated: a successful Replace leaves exactly the given set, listed
\* by ascending name, and publishes one notification that names the given
\* names and the names the store held.
C14_ReplacePublishes ==
    [][ReplaceReturns =>
          /\ List(resources') = List(call.expect)
          /\ version' = pre.version + 1
          /\ lastU' = Update(call.touched)]_vars

\* C14 as amended: a successful Replace leaves exactly the given set
\* (the last element winning under a name given twice), listed by ascending
\* name; if it was given a name or the store held one, it publishes one
\* notification that names all of them, and otherwise it publishes none.
C14_ReplacePublishesChanges ==
    [][ReplaceReturns =>
          /\ List(resources') = List(call.expect)
          /\ \A i, j \in DOMAIN List(resources') :
                 i < j => NameLess(List(resources')[i].name, List(resources')[j].name)
          /\ IF call.touched # {}
             THEN version' = pre.version + 1 /\ lastU' = Update(call.touched)
             ELSE version' = pre.version /\ lastU' = lastU /\ rCh' = rCh]_vars

\* A Replace has returned that removed one name and set the other, and a
\* session holds its notification of both names.
C14_Witness ==
    /\ ppc = "idle" /\ call.kind = "Replace" /\ ret = "nil"
    /\ DOMAIN pre.resources = {"B"}
    /\ lastU = Update({"A", "B"})
    /\ \E s \in sessions : rCh[s] = <<lastU>>

\* C15: when the driver consumes a notification it starts a push (builds
\* a response and offers it to resCh) if its subscription is empty or names
\* a resource of the notification, and otherwise it starts none and leaves
\* its transactions and its last response alone.
C15_PushIffWanted ==
    [][\A s \in Streams : Notified(s) =>
          IF Len(subscribed[s]) = 0 \/ Range(subscribed[s]) \cap rCh[s][1].resources # {}
          THEN pc'[s] = "build"
          ELSE /\ pc'[s] = "select"
               /\ txs'[s] = txs[s]
               /\ res'[s] = res[s]
               /\ sent'[s] = sent[s]]_vars

\* A stream subscribed to B built a response at version 1 and then consumed
\* the notification of a change of A without building another.
C15_Witness ==
    /\ ppc = "idle" /\ version = 2 /\ lastU = Update({"A"})
    /\ subscribed["s1"] = <<"B">> /\ node["s1"] = "n1"
    /\ pc["s1"] = "select" /\ rCh["s1"] = <<>>
    /\ res["s1"] # NoRes /\ res["s1"].version_info = versionString(1)

\* C16: a request whose response_nonce is empty or the key of no live
\* transaction retires no transaction and reaches no observer; unless it is
\* rejected by the subscription or the type check, it makes the driver call
\* sendUpdate, which builds the response from the store as it is then.
C16_UnknownNonceResends ==
    [][\A s \in Streams :
          /\ reqs'[s] = reqs[s] + 1 =>
              \A req \in RequestsWith(({NoNonce} \cup AllNonces) \ DOMAIN txs[s], {Type, OtherType}) :
                 Request(s, req) =>
                    /\ txs'[s] = txs[s]
                    /\ acks'[s] = <<>>
                    /\ pc'[s] \in {"build", "exit"}
                    /\ (~Diff(subscribed'[s], req.resource_names) /\ req.type_url = Type)
                           => pc'[s] = "build"
          /\ Builds(s) =>
                 /\ Listed(res'[s]) = Restricted(resources, subscribed[s])
                 /\ res'[s].version_info = versionString(version)]_vars

\* With a transaction live, a second request that acknowledged nothing has
\* made the driver call sendUpdate.
C16_Witness ==
    /\ OnAck /\ reqs["s1"] = 2 /\ acks["s1"] = <<>>
    /\ pc["s1"] = "build" /\ rCh["s1"] = <<>> /\ version = 0
    /\ txs["s1"] # EmptyMap

\* C17: a request whose type_url is not the Manager's ends the stream with
\* InvalidArgument, whatever its resource_names and response_nonce, and
\* neither starts a push nor retires a transaction.
C17_WrongTypeIsInvalidArgument ==
    [][\A s \in Streams : \A req \in RequestsWith({NoNonce} \cup AllNonces, {OtherType}) :
          Request(s, req) =>
              /\ pc'[s] = "exit"
              /\ err'[s] = "InvalidArgument"
              /\ txs'[s] = txs[s]]_vars

\* C18: once the context of a stream is cancelled, the driver returns and
\* its session is removed from the session set with its channel closed.
C18_CancelledStreamCleansUp ==
    \A s \in Streams :
        ctxDone[s] ~> (pc[s] = "returned" /\ s \notin sessions /\ closed[s])

\* C19: when the timer fires before resCh accepts the response, the
\* transactions stay as they are, the stream stays open, and a notification
\* consumed afterwards that matches the subscription starts a new push.
C19_TimeoutRecordsNothing ==
    [][\A s \in Streams :
          /\ \A hash \in randomString :
                 sendUpdate(s, hash, FALSE) =>
                    /\ txs'[s] = txs[s]
                    /\ sent'[s] = sent[s]
                    /\ pc'[s] = "select"
                    /\ err'[s] = "none"
                    /\ s \in sessions'
          /\ (Notified(s) /\ res[s] # NoRes /\ sent[s] # res[s].version_info /\ Wanted(s, rCh[s][1]))
                 => pc'[s] = "build"]_vars

\* The only push of a stream, built at version 1, timed out; the stream has
\* then consumed the notification of version 2 and is about to push again.
C19_Witness ==
    /\ res["s1"] # NoRes /\ res["s1"].version_info = versionString(1)
    /\ sent["s1"] = NoVersion /\ txs["s1"] = EmptyMap
    /\ pc["s1"] = "build" /\ version = 2 /\ rCh["s1"] = <<>>
    /\ reqs["s1"] = 1

\* C20: every span that was started and not finished belongs to a live
\* transaction, one span to each, so that an acknowledgement, the cleanup
\* tick or the return of Stream finishes it, once; when Stream has
\* returned no span is left.
C20_SpansFinishOnce ==
    \A s \in Streams :
        /\ spans[s] = Cardinality(DOMAIN txs[s])
        /\ pc[s] = "returned" => spans[s] = 0

\* C21: a cleanup tick removes exactly the transactions that are older
\* than a minute (those that started no later than the youngest such one)
\* and leaves every younger one as it is; the stream stays open, a
\* notification consumed later that matches the subscription still starts a
\* push, and a request that carries a nonce no longer in the map is
\* dispatched as one with an unknown nonce: no observer call, a new push.
C21_TickRetiresStale ==
    [][\A s \in Streams :
          /\ \A k \in DOMAIN txs[s] :
                 TickAt(s, k) =>
                    /\ DOMAIN txs'[s] =
                          {j \in DOMAIN txs[s] : txs[s][j].start > txs[s][k].start}
                    /\ \A j \in DOMAIN txs'[s] : txs'[s][j] = txs[s][j]
                    /\ pc'[s] = "select"
                    /\ err'[s] = "none"
                    /\ s \in sessions'
          /\ (Notified(s) /\ Wanted(s, rCh[s][1])) => pc'[s] = "build"
          /\ reqs'[s] = reqs[s] + 1 =>
                 \A req \in RequestsWith(AllNonces \ DOMAIN txs[s], {Type}) :
                    (Request(s, req) /\ pc'[s] # "exit")
                        => (pc'[s] = "build" /\ acks'[s] = <<>> /\ txs'[s] = txs[s])]_vars

\* After one request, which could acknowledge nothing, the older of two
\* transactions is gone, the younger one is live and the driver is back in
\* its select with the stream open.
C21_Witness ==
    /\ reqs["s1"] = 1 /\ pc["s1"] = "select" /\ "s1" \in sessions
    /\ Cardinality(DOMAIN txs["s1"]) = 1
    /\ \A k \in DOMAIN txs["s1"] : txs["s1"][k].start = 2

\* C22: no Update is ever sent on a closed session channel.  Every session
\* in the Manager's set has an open channel, so have the sessions notify
\* still waits to send to, and a slot is filled only for a session that is
\* in the set and open; a session leaves the set and has its channel closed
\* in one step, taken while no producer holds the lock.
C22_NoSendOnClosed ==
    /\ [](\A s \in sessions : ~closed[s])
    /\ [](ppc = "notify" =>
             \A i \in DOMAIN blocked : blocked[i] \in sessions /\ ~closed[blocked[i]])
    /\ [][\A s \in Streams :
             /\ (rCh'[s] # rCh[s] /\ rCh'[s] # <<>>) =>
                    (mu = "producer" /\ s \in sessions /\ ~closed[s])
             /\ (closed'[s] /\ ~closed[s]) =>
                    (mu = "free" /\ s \in sessions /\ s \notin sessions')]_vars

\* One stream has returned and its channel is closed, while a producer
\* inside notify waits to send to the other stream, whose slot is full.
C22_Witness ==
    /\ closed["s1"] /\ "s1" \notin sessions
    /\ ppc = "notify" /\ blocked = <<"s2">> /\ rCh["s2"] # <<>>

\* A producer inside notify holds the lock and waits to send to a session
\* whose slot is full, while the driver of that session waits for the lock,
\* in BuildDiscoveryResponse or in its deferred cleanup.
LockCycle ==
    /\ mu = "producer"
    /\ ppc = "notify"
    /\ blocked # <<>>
    /\ ~CanSend(Head(blocked))
    /\ pc[Head(blocked)] \in {"build", "exit"}

\* C23: the lock and the session slots never deadlock.  When the producer's
\* context is never cancelled and every response is read in time, no state
\* is reached in which a producer holding the lock waits on a full slot
\* whose driver waits for the lock, and every call of Add, Replace and
\* Delete that has begun returns.
C23_NoLockCycle ==
    /\ [](~LockCycle)
    /\ (ppc # "idle") ~> (ppc = "idle")

====
